---- MODULE Spec2Model ----
(***************************************************************************)
(* PyCosworth: the coordinator loop of PyCosworth.py and the SerialIO      *)
(* acquisition loop of iomodules/SerialIO.py, as two processes that share  *)
(* multiprocessing queues and the EcuData store.                           *)
(*                                                                         *)
(* Sensor values are the exact rationals the float arithmetic of           *)
(* setupDemoSensors denotes, kept as numerators over DEMO_STEPS (the value *)
(* v is stored as v * DEMO_STEPS); float rounding is not modelled.         *)
(* Time is a discrete clock `now` (timeit.default_timer()).                *)
(***************************************************************************)
EXTENDS Integers, Sequences, FiniteSets, TLC

\* ---------------------------------------------------------------- bounds
MaxTime == 4
MaxQueue == 1
MaxBacklog == 2
MaxActions == 2
MaxCounter == 4
MaxEvents == 3

\* ------------------------------------------------------- libs/settings.py
DEMO_STEPS == 2
MAX_ERRORS == 2

SENSORS ==
  << [sensorId |-> "RPM", refresh |-> 1, minValue |-> 0,  maxValue |-> 8000],
     [sensorId |-> "ECT", refresh |-> 2, minValue |-> 10, maxValue |-> 20] >>

SensorIds == { SENSORS[n].sensorId : n \in 1..Len(SENSORS) }

SensorOf(id) == CHOOSE s \in { SENSORS[n] : n \in 1..Len(SENSORS) } : s.sensorId = id

TYPE_DATA == "DATA"
TYPE_ERROR == "ERROR"
BUTTON_SHORT == "SHORT"
BUTTON_LONG == "LONG"
BUTTON_NONE == "NONE"
BUTTON_DEST_SERIALIO == "SERIALIO"
BUTTON_DEST_OTHER == "CONSOLE"

None == "None"
\* the null value EcuData.set_sensor registers for every sensor
NoValue == -1

VARIABLES
  settings,             \* USE_CONSOLE, USE_MATRIX, USE_BUTTONS, USE_GRAPHICS, SERIALIO_DEMO
  now,                  \* timeit.default_timer()
  \* queues
  serialTransmitQueue, serialReceiveQueue, gpioActionQueue, controlQueue,
  \* coordinator (PyCosworth.py __main__)
  mpc, workers, messageQueues, names, d, gpioMessage, qi,
  \* EcuData
  data, data_previous, ecuCounter, ecuSampleTime, ecuErrors,
  \* SerialIO
  spc, SERIALIO_DEMO, demo_sensor, connected, sample_counter_id, sensor_timer,
  counter, sample_time, sample_start, si,
  \* history (not program state):
  \*   pressed      number of control messages created so far
  \*   produced     number of sample events put by EnvEvent so far
  \*   published    seq of the messages the coordinator drained, in order
  \*   received     seq of the messages SerialIO took, in order
  \*   committed    per sensor, << current, previous >> after its last completed update
  \*   applied      per sensor, the values of the DATA events the coordinator took
  \*   tickCounter  counter at the start of the SerialIO tick
  \*   dueInTick    the sensors found due so far in the SerialIO tick
  \*   emitLog      per sensor, the demo values emitted since demo mode was entered
  \*   switchedOff  demo mode was once left by a control message
  \*   offCursor    per sensor, whether its demo cursor was off 0 when demo mode
  \*                was last left
  \*   reenabled    the current demo period was entered after demo mode had been left
  \*   lastHandled  the control message SerialIO took in the step just made
  \*                (its seq set to 0), NoMessage after any other step
  \*   pacedLatency the sample_time measured when the pacing sensor last fired,
  \*                NoValue before it first fires
  pressed, produced, published, received, committed, applied,
  tickCounter, dueInTick, emitLog, switchedOff, offCursor, reenabled, lastHandled,
  pacedLatency

queueVars == << serialTransmitQueue, serialReceiveQueue, gpioActionQueue, controlQueue >>
mainVars == << mpc, workers, messageQueues, names, d, gpioMessage, qi >>
ecuVars == << data, data_previous, ecuCounter, ecuSampleTime, ecuErrors >>
serialVars == << spc, SERIALIO_DEMO, demo_sensor, connected, sample_counter_id,
                 sensor_timer, counter, sample_time, sample_start, si >>
mainHist == << pressed, produced, published, committed, applied >>
serialHist == << received, tickCounter, dueInTick, emitLog, switchedOff, offCursor,
                 reenabled, lastHandled, pacedLatency >>

vars == << settings, now, queueVars, mainVars, ecuVars, serialVars, mainHist, serialHist >>

\* ------------------------------------------------------------- helpers
Inboxes == { "serialControlQueue", "consoleControlQueue",
             "matrixControlQueue", "graphicsControlQueue" }

\* (variant: a put at the head of the queue)
PutFront(q, x) == << x >> \o q

\* multiprocessing.Queue.put: first in, first out
Put(q, x) == Append(q, x)

\* ------------------------------------------------- SerialIO.setupDemoSensors
RECURSIVE Ascent(_, _, _)
Ascent(d_value, demo_step_size, n) ==
  IF n = 0 THEN << >>
  ELSE << d_value >> \o Ascent(d_value + demo_step_size, demo_step_size, n - 1)

\* (variant: the descent appending before it subtracts, as the ascent does)
RECURSIVE DescentAppendFirst(_, _, _)
DescentAppendFirst(d_value, demo_step_size, n) ==
  IF n = 0 THEN << >>
  ELSE << d_value >>
         \o DescentAppendFirst(d_value - demo_step_size, demo_step_size, n - 1)

RECURSIVE Descent(_, _, _)
Descent(d_value, demo_step_size, n) ==
  IF n = 0 THEN << >>
  ELSE << d_value - demo_step_size >>
         \o Descent(d_value - demo_step_size, demo_step_size, n - 1)

\* (variant: the step taken over the span maxValue - minValue)
DemoDataSpan(sensor, steps) ==
  LET demo_step_size == sensor.maxValue - sensor.minValue
      d_value == sensor.minValue * steps
  IN  Ascent(d_value, demo_step_size, steps)
        \o Descent(d_value + steps * demo_step_size, demo_step_size, steps)

\* Values are numerators over `steps`: maxValue * 1.0 / steps has numerator
\* maxValue and minValue has numerator minValue * steps.
DemoData(sensor, steps) ==
  LET demo_step_size == sensor.maxValue
      d_value == sensor.minValue * steps
  IN  Ascent(d_value, demo_step_size, steps)
        \o Descent(d_value + steps * demo_step_size, demo_step_size, steps)

\* lines 40-55, for the registry and step count the settings hold
setupDemoSensorsOf(sensors, steps) ==
  [ id \in { sensors[n].sensorId : n \in 1..Len(sensors) } |->
      [ demo_data_idx |-> 0,
        demo_data |-> DemoData(CHOOSE s \in { sensors[n] : n \in 1..Len(sensors) } :
                                  s.sensorId = id, steps) ] ]

setupDemoSensors == setupDemoSensorsOf(SENSORS, DEMO_STEPS)

\* ------------------------------------------------- libs/ControlData.py
NoMessage == [ seq |-> 0, destination |-> None, button |-> FALSE, duration |-> BUTTON_NONE ]

ControlMessages(n) ==
  [ seq : {n},
    destination : { BUTTON_DEST_SERIALIO, BUTTON_DEST_OTHER },
    button : BOOLEAN,
    duration : { BUTTON_SHORT, BUTTON_LONG, BUTTON_NONE } ]

\* cdata.isMine(myButtonId): the message is addressed to this worker
isMine(cdata, myButtonId) == cdata.destination = myButtonId

\* ------------------------------------------------------------------ Init
Settings ==
  [ USE_CONSOLE : BOOLEAN, USE_MATRIX : BOOLEAN, USE_BUTTONS : BOOLEAN,
    USE_GRAPHICS : BOOLEAN, SERIALIO_DEMO : BOOLEAN ]

InitRest ==
  /\ now = 0
  /\ serialTransmitQueue = << >>
  /\ serialReceiveQueue = << >>
  /\ gpioActionQueue = << >>
  /\ controlQueue = [ q \in Inboxes |-> << >> ]
  /\ workers = << >>
  /\ messageQueues = << >>
  /\ names = {}
  /\ d = << >>
  /\ gpioMessage = NoMessage
  /\ qi = 0
  /\ data = [ id \in SensorIds |-> NoValue ]
  /\ data_previous = [ id \in SensorIds |-> NoValue ]
  /\ ecuCounter = 0
  /\ ecuSampleTime = 0
  /\ ecuErrors = [ n \in 1..MAX_ERRORS |-> n - 1 ]
  /\ SERIALIO_DEMO = FALSE
  /\ demo_sensor = [ id \in SensorIds |-> [ demo_data_idx |-> 0, demo_data |-> << >> ] ]
  /\ connected = FALSE
  /\ sample_counter_id = ""
  /\ sensor_timer = [ id \in SensorIds |-> 0 ]
  /\ counter = 0
  /\ sample_time = 0
  /\ sample_start = 0
  /\ si = 0
  /\ pressed = 0
  /\ produced = 0
  /\ published = << >>
  /\ received = << >>
  /\ committed = [ id \in SensorIds |-> << NoValue, NoValue >> ]
  /\ applied = [ id \in SensorIds |-> << >> ]
  /\ tickCounter = 0
  /\ dueInTick = {}
  /\ emitLog = [ id \in SensorIds |-> << >> ]
  /\ switchedOff = FALSE
  /\ offCursor = [ id \in SensorIds |-> FALSE ]
  /\ reenabled = FALSE
  /\ lastHandled = NoMessage
  /\ pacedLatency = NoValue

\* The program as PyCosworth.py starts it, under any settings
Init ==
  /\ settings \in Settings
  /\ mpc = "start"
  /\ spc = "off"
  /\ InitRest

\* ------------------------------------- PyCosworth.py: worker start-up
\* A start-up state: the workers list, the messageQueues list, the names bound
\* so far in the module namespace, and whether a NameError ended the process.
StartSerial ==
  [ workers |-> << "serial_p" >>, messageQueues |-> << "serialControlQueue" >>,
    names |-> { "serialControlQueue" }, crashed |-> FALSE ]

\* messageQueues.append(<name>): reading an unbound name raises NameError
AppendQueue(s, name) ==
  IF name \in s.names
  THEN [ s EXCEPT !.messageQueues = Append(@, name) ]
  ELSE [ s EXCEPT !.crashed = TRUE ]

StartWorker(s, queue, proc) ==
  [ s EXCEPT !.names = @ \cup { queue }, !.workers = Append(@, proc) ]

StartConsole(cfg, s) ==
  IF s.crashed \/ ~cfg.USE_CONSOLE THEN s
  ELSE AppendQueue(StartWorker(s, "consoleControlQueue", "console_p"),
                   "matrixControlQueue")

StartMatrix(cfg, s) ==
  IF s.crashed \/ ~cfg.USE_MATRIX THEN s
  ELSE AppendQueue(StartWorker(s, "matrixControlQueue", "matrix_p"),
                   "matrixControlQueue")

StartButtons(cfg, s) ==
  IF s.crashed \/ ~cfg.USE_BUTTONS THEN s
  ELSE StartWorker(s, "gpioActionQueue", "gpio_button_p")

StartGraphics(cfg, s) ==
  IF s.crashed \/ ~cfg.USE_GRAPHICS THEN s
  ELSE AppendQueue(StartWorker(s, "graphicsControlQueue", "graphics_p"),
                   "graphicsControlQueue")

Startup ==
  /\ mpc = "start"
  /\ LET r == StartGraphics(settings,
                StartButtons(settings,
                  StartMatrix(settings,
                    StartConsole(settings, StartSerial))))
     IN  /\ workers' = r.workers
         /\ messageQueues' = r.messageQueues
         /\ names' = r.names
         /\ mpc' = IF r.crashed THEN "crashed" ELSE "rxcheck"
  /\ spc' = "init"
  /\ UNCHANGED << settings, now, queueVars, d, gpioMessage, qi, ecuVars,
                  SERIALIO_DEMO, demo_sensor, connected, sample_counter_id,
                  sensor_timer, counter, sample_time, sample_start, si,
                  mainHist, serialHist >>

\* --------------------------------------- PyCosworth.py: coordinator loop
Kind(e) == e[1]
SensorId(e) == e[2]
Value(e) == e[3]
SampleCount(e) == e[4]
CycleTime(e) == e[5]

\* line 180: if serialReceiveQueue.empty() == False
M_RxCheck ==
  /\ mpc = "rxcheck"
  /\ mpc' = IF serialReceiveQueue # << >> THEN "rxget" ELSE "actcheck"
  /\ UNCHANGED << settings, now, queueVars, workers, messageQueues, names, d,
                  gpioMessage, qi, ecuVars, serialVars, mainHist, serialHist >>

\* where the type dispatch of lines 190-198 sends the coordinator
Dispatch(e) ==
  IF Kind(e) = TYPE_ERROR THEN "always"
  ELSE IF Kind(e) = TYPE_DATA THEN "w195"
  ELSE "always"

\* line 182: d = serialReceiveQueue.get(), a blocking get, and lines 190-198
M_RxGet ==
  /\ mpc = "rxget"
  /\ serialReceiveQueue # << >>
  /\ d' = Head(serialReceiveQueue)
  /\ serialReceiveQueue' = Tail(serialReceiveQueue)
  /\ mpc' = Dispatch(d')
  /\ applied' = IF Kind(d') = TYPE_DATA
                THEN [ applied EXCEPT ![SensorId(d')] = Append(@, Value(d')) ]
                ELSE applied
  /\ UNCHANGED << settings, now, serialTransmitQueue, gpioActionQueue, controlQueue,
                  workers, messageQueues, names, gpioMessage, qi, ecuVars, serialVars,
                  pressed, produced, published, committed, serialHist >>

\* (variant: the two writes in the other order, previous copied after current)
WritePreviousAfter(e) == [ data_previous EXCEPT ![SensorId(e)] = Value(e) ]

\* line 195: ecuData.data_previous[d[1]] = ecuData.data[d[1]]
WritePrevious(e) == [ data_previous EXCEPT ![SensorId(e)] = data[SensorId(e)] ]

M_WritePrev ==
  /\ mpc = "w195"
  /\ data_previous' = WritePrevious(d)
  /\ mpc' = "w196"
  /\ UNCHANGED << settings, now, queueVars, workers, messageQueues, names, d,
                  gpioMessage, qi, data, ecuCounter, ecuSampleTime, ecuErrors,
                  serialVars, mainHist, serialHist >>

\* line 196: ecuData.data[d[1]] = d[2]
WriteCurrent(e) == [ data EXCEPT ![SensorId(e)] = Value(e) ]

M_WriteCur ==
  /\ mpc = "w196"
  /\ data' = WriteCurrent(d)
  /\ committed' = [ committed EXCEPT
                      ![SensorId(d)] = << data'[SensorId(d)], data_previous[SensorId(d)] >> ]
  /\ mpc' = "always"
  /\ UNCHANGED << settings, now, queueVars, workers, messageQueues, names, d,
                  gpioMessage, qi, data_previous, ecuCounter, ecuSampleTime, ecuErrors,
                  serialVars, pressed, produced, published, applied, serialHist >>

\* (variant: the counter updated for DATA events only)
AlwaysCounterDataOnly(e) == IF Kind(e) = TYPE_DATA THEN SampleCount(e) ELSE ecuCounter

\* lines 200-202: "Always update the sample counter", whatever the kind
AlwaysCounter(e) == SampleCount(e)
AlwaysTimer(e) == CycleTime(e)

M_Always ==
  /\ mpc = "always"
  /\ ecuCounter' = AlwaysCounter(d)
  /\ ecuSampleTime' = AlwaysTimer(d)
  /\ mpc' = "actcheck"
  /\ UNCHANGED << settings, now, queueVars, workers, messageQueues, names, d,
                  gpioMessage, qi, data, data_previous, ecuErrors,
                  serialVars, mainHist, serialHist >>

\* line 205: if gpioActionQueue.empty() == False; the name is bound only under
\* USE_BUTTONS (line 144), otherwise reading it raises NameError.
\* Lines 213-214 (i += 1, sleep) close the tick when the queue is empty; i
\* only paces the log line of lines 175-177.
M_ActCheck ==
  /\ mpc = "actcheck"
  /\ mpc' = IF "gpioActionQueue" \notin names THEN "crashed"
            ELSE IF gpioActionQueue # << >> THEN "actget"
            ELSE "rxcheck"
  /\ UNCHANGED << settings, now, queueVars, workers, messageQueues, names, d,
                  gpioMessage, qi, ecuVars, serialVars, mainHist, serialHist >>

\* line 207: gpioMessage = gpioActionQueue.get()
M_ActGet ==
  /\ mpc = "actget"
  /\ gpioActionQueue # << >>
  /\ gpioMessage' = Head(gpioActionQueue)
  /\ gpioActionQueue' = Tail(gpioActionQueue)
  /\ published' = Append(published, gpioMessage'.seq)
  /\ qi' = 1
  /\ mpc' = "publish"
  /\ UNCHANGED << settings, now, serialTransmitQueue, serialReceiveQueue, controlQueue,
                  workers, messageQueues, names, d, ecuVars, serialVars,
                  pressed, produced, committed, applied, serialHist >>

\* (variant: the message put at the front of the inbox)
PublishFront(queues, q, msg) == [ queues EXCEPT ![q] = << msg >> \o @ ]

\* lines 210-211: for q in messageQueues: q.put(gpioMessage), one put per step;
\* after the last one, lines 213-214 close the tick.
Publish(queues, q, msg) == [ queues EXCEPT ![q] = Put(@, msg) ]

M_Put ==
  /\ mpc = "publish"
  /\ qi <= Len(messageQueues)
  /\ controlQueue' = Publish(controlQueue, messageQueues[qi], gpioMessage)
  /\ qi' = IF qi < Len(messageQueues) THEN qi + 1 ELSE 0
  /\ mpc' = IF qi < Len(messageQueues) THEN "publish" ELSE "rxcheck"
  /\ UNCHANGED << settings, now, serialTransmitQueue, serialReceiveQueue, gpioActionQueue,
                  workers, messageQueues, names, d, gpioMessage, ecuVars, serialVars,
                  mainHist, serialHist >>

\* ------------------------------- iomodules/GPIOButtonIO.py (not in src/)
\* The button source puts ControlData messages on the action queue.
ButtonPress ==
  /\ \E n \in 1..Len(workers) : workers[n] = "gpio_button_p"
  /\ pressed < MaxActions
  /\ \E m \in ControlMessages(pressed + 1) :
        gpioActionQueue' = Put(gpioActionQueue, m)
  /\ pressed' = pressed + 1
  /\ UNCHANGED << settings, now, serialTransmitQueue, serialReceiveQueue, controlQueue,
                  mainVars, ecuVars, serialVars, produced, published, committed,
                  applied, serialHist >>

\* ------------------------------------------- iomodules/SerialIO.py: set-up
\* lines 83-88: the sensor with the highest sample rate
RECURSIVE FindPacing(_, _, _, _)
FindPacing(sensors, n, highest_sample_rate, id) ==
  IF n > Len(sensors) THEN id
  ELSE IF sensors[n].refresh < highest_sample_rate
       THEN FindPacing(sensors, n + 1, sensors[n].refresh, sensors[n].sensorId)
       ELSE FindPacing(sensors, n + 1, highest_sample_rate, id)

\* lines 60-100, after the process was started (PyCosworth.py line 111)
S_Init ==
  /\ spc = "init"
  /\ SERIALIO_DEMO' = settings.SERIALIO_DEMO
  /\ demo_sensor' = IF settings.SERIALIO_DEMO THEN setupDemoSensors ELSE demo_sensor
  /\ connected' = FALSE
  /\ sample_counter_id' = FindPacing(SENSORS, 1, 99, "")
  /\ sensor_timer' = [ id \in SensorIds |-> now ]
  /\ counter' = 0
  /\ spc' = "top"
  /\ UNCHANGED << settings, now, queueVars, mainVars, ecuVars, sample_time,
                  sample_start, si, mainHist, serialHist >>

\* ------------------------------------------ iomodules/SerialIO.py: the loop
\* lines 110-111
S_LoopTop ==
  /\ spc = "top"
  /\ counter < MaxCounter
  /\ sample_time' = 0
  /\ sample_start' = now
  /\ spc' = "ctrl"
  /\ tickCounter' = counter
  /\ dueInTick' = {}
  /\ UNCHANGED << settings, now, queueVars, mainVars, ecuVars, SERIALIO_DEMO,
                  demo_sensor, connected, sample_counter_id, sensor_timer, counter, si,
                  mainHist, received, emitLog, switchedOff, offCursor, reenabled,
                  lastHandled, pacedLatency >>

\* line 118: if controlQueue.empty() == False
S_CtrlCheck ==
  /\ spc = "ctrl"
  /\ spc' = IF controlQueue["serialControlQueue"] # << >> THEN "ctrlget" ELSE "tx"
  /\ UNCHANGED << settings, now, queueVars, mainVars, ecuVars, SERIALIO_DEMO,
                  demo_sensor, connected, sample_counter_id, sensor_timer, counter,
                  sample_time, sample_start, si, mainHist, serialHist >>

\* (variant: the duration test left out, any own press toggles)
ToggleDemoAnyPress(cdata, demo) ==
  IF isMine(cdata, BUTTON_DEST_SERIALIO) /\ cdata.button THEN ~demo ELSE demo

\* (variant: the isMine test left out)
ToggleDemoAny(cdata, demo) ==
  IF cdata.button /\ cdata.duration = BUTTON_SHORT THEN ~demo ELSE demo

\* lines 120-139: the mode after the control message cdata
ToggleDemo(cdata, demo) ==
  IF isMine(cdata, BUTTON_DEST_SERIALIO)
  THEN IF cdata.button /\ cdata.duration = BUTTON_SHORT THEN ~demo ELSE demo
  ELSE demo

\* (variant: the sequences regenerated, the cursors kept)
EnterDemoKeepCursor(old) ==
  [ id \in SensorIds |->
      [ demo_data_idx |-> old[id].demo_data_idx,
        demo_data |-> setupDemoSensors[id].demo_data ] ]

\* line 140: demo_sensor = setupDemoSensors() on entering demo mode
EnterDemo(old) == setupDemoSensors

\* lines 119-140: cdata = controlQueue.get(), a blocking get, and its handling
S_CtrlGet ==
  /\ spc = "ctrlget"
  /\ controlQueue["serialControlQueue"] # << >>
  /\ LET cdata == Head(controlQueue["serialControlQueue"])
         demo == ToggleDemo(cdata, SERIALIO_DEMO)
     IN  /\ controlQueue' = [ controlQueue EXCEPT !["serialControlQueue"] = Tail(@) ]
         /\ received' = Append(received, cdata.seq)
         /\ SERIALIO_DEMO' = demo
         /\ demo_sensor' = IF demo /\ ~SERIALIO_DEMO THEN EnterDemo(demo_sensor)
                           ELSE demo_sensor
         /\ emitLog' = IF demo /\ ~SERIALIO_DEMO THEN [ id \in SensorIds |-> << >> ]
                       ELSE emitLog
         /\ switchedOff' = (switchedOff \/ (SERIALIO_DEMO /\ ~demo))
         /\ offCursor' = IF SERIALIO_DEMO /\ ~demo
                         THEN [ id \in SensorIds |-> demo_sensor[id].demo_data_idx # 0 ]
                         ELSE offCursor
         /\ reenabled' = IF demo /\ ~SERIALIO_DEMO THEN switchedOff
                         ELSE IF ~demo THEN FALSE ELSE reenabled
         /\ lastHandled' = [ cdata EXCEPT !.seq = 0 ]
  /\ spc' = "tx"
  /\ UNCHANGED << settings, now, serialTransmitQueue, serialReceiveQueue, gpioActionQueue,
                  mainVars, ecuVars, connected, sample_counter_id, sensor_timer, counter,
                  sample_time, sample_start, si, mainHist, tickCounter, dueInTick,
                  pacedLatency >>

\* lines 150-165: at most one transmit request per tick; sending it is a stub
S_Transmit ==
  /\ spc = "tx"
  /\ serialTransmitQueue' = IF serialTransmitQueue # << >> THEN Tail(serialTransmitQueue)
                            ELSE serialTransmitQueue
  /\ si' = 1
  /\ spc' = "sensors"
  /\ lastHandled' = NoMessage
  /\ UNCHANGED << settings, now, serialReceiveQueue, gpioActionQueue, controlQueue,
                  mainVars, ecuVars, SERIALIO_DEMO, demo_sensor, connected,
                  sample_counter_id, sensor_timer, counter, sample_time, sample_start,
                  mainHist, received, tickCounter, dueInTick, emitLog, switchedOff,
                  offCursor, reenabled, pacedLatency >>

\* line 178: has the timer expired on the sensor
Due(sensor, timer, clock) == (clock - timer[sensor.sensorId]) >= sensor.refresh

\* (variant: the counter incremented for every due sensor)
NextCounterAnyDue(sensor, due, pacing, c) == IF due THEN c + 1 ELSE c

\* lines 181-183: the sample counter after a sensor was examined
NextCounter(sensor, due, pacing, c) ==
  IF due /\ sensor.sensorId = pacing THEN c + 1 ELSE c

\* lines 185-187: the time the sample run took
NextSampleTime(sensor, due, pacing, clock, start, old) ==
  IF due /\ sensor.sensorId = pacing THEN clock - start ELSE old

\* (variant: the cursor wrapped one index early)
NextIdxEarly(idx) == IF idx < ((DEMO_STEPS * 2) - 2) THEN idx + 1 ELSE 0

\* lines 201-204: the demo cursor after an emission
NextIdx(idx) == IF idx < ((DEMO_STEPS * 2) - 1) THEN idx + 1 ELSE 0

\* lines 198-199 and 212-213: the timers after a sensor was examined
NextTimer(sensor, due, demo, conn, timer, clock) ==
  IF due /\ (demo \/ conn) THEN [ timer EXCEPT ![sensor.sensorId] = clock ] ELSE timer

\* lines 173-216, one sensor of the for loop per step; the clock is read once
S_Sensor ==
  /\ spc = "sensors"
  /\ Len(serialReceiveQueue) < MaxBacklog
  /\ LET sensor == SENSORS[si]
         id == sensor.sensorId
         due == Due(sensor, sensor_timer, now)
         demo_data_idx == demo_sensor[id].demo_data_idx
     IN  /\ counter' = NextCounter(sensor, due, sample_counter_id, counter)
         /\ sample_time' = NextSampleTime(sensor, due, sample_counter_id, now,
                                          sample_start, sample_time)
         /\ sensor_timer' = NextTimer(sensor, due, SERIALIO_DEMO, connected,
                                      sensor_timer, now)
         /\ dueInTick' = IF due THEN dueInTick \cup { id } ELSE dueInTick
         /\ pacedLatency' = IF due /\ id = sample_counter_id THEN sample_time'
                             ELSE pacedLatency
         /\ IF due /\ SERIALIO_DEMO
            THEN LET rxb == demo_sensor[id].demo_data[demo_data_idx + 1]
                 IN  /\ serialReceiveQueue' =
                          Put(serialReceiveQueue,
                              << TYPE_DATA, id, rxb, counter', sample_time' >>)
                     /\ demo_sensor' = [ demo_sensor EXCEPT
                                           ![id].demo_data_idx = NextIdx(@) ]
                     /\ emitLog' = [ emitLog EXCEPT ![id] = Append(@, rxb) ]
            ELSE IF due /\ connected
            THEN /\ serialReceiveQueue' =
                      Put(serialReceiveQueue,
                          << TYPE_DATA, id, 0, counter', sample_time' >>)
                 /\ UNCHANGED << demo_sensor, emitLog >>
            ELSE UNCHANGED << serialReceiveQueue, demo_sensor, emitLog >>
  /\ si' = IF si < Len(SENSORS) THEN si + 1 ELSE 0
  /\ spc' = IF si < Len(SENSORS) THEN "sensors" ELSE "top"
  /\ UNCHANGED << settings, now, serialTransmitQueue, gpioActionQueue, controlQueue,
                  mainVars, ecuVars, SERIALIO_DEMO, connected, sample_counter_id,
                  sample_start, mainHist, received, tickCounter, switchedOff,
                  offCursor, reenabled, lastHandled >>

\* ------------------------------------------------------------ the clock
\* timeit.default_timer() advances; its origin is the SerialIO timer reset
Tick ==
  /\ spc \notin { "off", "init" }
  /\ now < MaxTime
  /\ now' = now + 1
  /\ UNCHANGED << settings, queueVars, mainVars, ecuVars, serialVars, mainHist,
                  serialHist >>

\* --------------------------------------------------------- specifications
\* The whole program: coordinator, SerialIO, button source and clock. Its state
\* space is the product of the parts below, on which the properties are checked.
Next ==
  \/ Startup
  \/ M_RxCheck \/ M_RxGet \/ M_WritePrev \/ M_WriteCur \/ M_Always
  \/ M_ActCheck \/ M_ActGet \/ M_Put
  \/ ButtonPress
  \/ S_Init \/ S_LoopTop \/ S_CtrlCheck \/ S_CtrlGet \/ S_Transmit \/ S_Sensor
  \/ Tick

Spec == Init /\ [][Next]_vars

\* ---- SerialIO(transmitQueue, receiveQueue, controlQueue) with any caller:
\* the other ends of its queues put any control message and take the samples.
InitSerial ==
  /\ settings \in { c \in Settings : ~c.USE_CONSOLE /\ ~c.USE_MATRIX
                                      /\ ~c.USE_BUTTONS /\ ~c.USE_GRAPHICS }
  /\ mpc = "none"
  /\ spc = "init"
  /\ InitRest

\* SerialIO takes at most one message per tick and looks at the head of its
\* inbox only, so a caller that puts a message once the inbox is empty shows it
\* every sequence of messages, in every tick pattern.
EnvControl ==
  /\ pressed < MaxActions
  /\ controlQueue["serialControlQueue"] = << >>
  /\ \E m \in ControlMessages(pressed + 1) :
        controlQueue' = [ controlQueue EXCEPT !["serialControlQueue"] = Put(@, m) ]
  /\ pressed' = pressed + 1
  /\ UNCHANGED << settings, now, serialTransmitQueue, serialReceiveQueue, gpioActionQueue,
                  mainVars, ecuVars, serialVars, produced, published, committed,
                  applied, serialHist >>

EnvTake ==
  /\ serialReceiveQueue # << >>
  /\ serialReceiveQueue' = Tail(serialReceiveQueue)
  /\ UNCHANGED << settings, now, serialTransmitQueue, gpioActionQueue, controlQueue,
                  mainVars, ecuVars, serialVars, mainHist, serialHist >>

\* SerialIO never reads serialReceiveQueue and its put never blocks, so its
\* behaviour does not depend on how long the queue is: here the caller keeps
\* it at no more than MaxQueue samples.
NextSerial ==
  \/ S_Init \/ S_LoopTop \/ S_CtrlCheck \/ S_CtrlGet \/ S_Transmit
  \/ (Len(serialReceiveQueue) < MaxQueue /\ S_Sensor)
  \/ Tick \/ EnvControl \/ EnvTake

SpecSerial == InitSerial /\ [][NextSerial]_vars

\* ---- The coordinator with any producer on serialReceiveQueue: events of
\* every kind, for every sensor, with any value.
TYPE_OTHER == "OTHER"
EventValues == 1..3
EventTimes == 0..1

EnvEvent ==
  /\ mpc \notin { "start", "crashed" }
  /\ produced < MaxEvents
  /\ Len(serialReceiveQueue) < MaxQueue
  /\ \E kind \in { TYPE_DATA, TYPE_ERROR, TYPE_OTHER }, id \in SensorIds,
        v \in EventValues, t \in EventTimes :
        serialReceiveQueue' =
           Put(serialReceiveQueue, << kind, id, v, produced + 1, t >>)
  /\ produced' = produced + 1
  /\ UNCHANGED << settings, now, serialTransmitQueue, gpioActionQueue, controlQueue,
                  mainVars, ecuVars, serialVars, pressed, published, committed,
                  applied, serialHist >>

NextCoord ==
  \/ Startup
  \/ M_RxCheck \/ M_RxGet \/ M_WritePrev \/ M_WriteCur \/ M_Always
  \/ M_ActCheck
  \/ EnvEvent

\* Start-up decides whether the loop is reached (USE_CONSOLE) and whether
\* line 205 can be executed (USE_BUTTONS); the other settings do not reach
\* the receive path.
InitCoord ==
  /\ settings \in { c \in Settings : ~c.USE_MATRIX /\ ~c.USE_GRAPHICS
                                      /\ ~c.SERIALIO_DEMO }
  /\ mpc = "start"
  /\ spc = "off"
  /\ InitRest

SpecCoord == InitCoord /\ [][NextCoord]_vars

\* ---- The control path: coordinator, button source and SerialIO together,
\* with no sample in flight (the clock stands still, so no sensor is due).
NextBus ==
  \/ Startup
  \/ M_RxCheck \/ M_ActCheck \/ M_ActGet \/ M_Put
  \/ ButtonPress
  \/ S_Init \/ S_LoopTop \/ S_CtrlCheck \/ S_CtrlGet \/ S_Transmit \/ S_Sensor

SpecBus == Init /\ [][NextBus]_vars

\* ---- The sample path: SerialIO, the clock and the coordinator together,
\* with a button source that stays silent (no action is put, so no control
\* message is in flight). USE_CONSOLE ends the program during start-up and
\* the matrix and graphics workers do not touch the sample path.
InitFlow ==
  /\ settings \in { c \in Settings : ~c.USE_CONSOLE /\ ~c.USE_MATRIX /\ ~c.USE_GRAPHICS }
  /\ mpc = "start"
  /\ spc = "off"
  /\ InitRest

MainFlow == M_RxCheck \/ M_RxGet \/ M_WritePrev \/ M_WriteCur \/ M_Always \/ M_ActCheck

NextFlow ==
  \/ Startup
  \/ M_RxCheck \/ M_RxGet \/ M_WritePrev \/ M_WriteCur \/ M_Always \/ M_ActCheck
  \/ S_Init \/ S_LoopTop \/ S_CtrlCheck \/ S_Transmit \/ S_Sensor
  \/ Tick

\* The coordinator is a process of its own that sleeps a bounded time per tick
\* (line 214): while it can take a step it takes one.
SpecFlow ==
  /\ InitFlow
  /\ [][NextFlow]_vars
  /\ WF_vars(Startup \/ MainFlow)

\* ---- SerialIO set-up (lines 70-88) under any settings: registries of one
\* to MaxSensors sensors with any of the refresh intervals and ranges below,
\* and any of the step counts. The maxima are multiples of the step counts, so
\* that maxValue * 1.0 / DEMO_STEPS and every sum and difference of lines 50
\* and 52 is a whole number and the float arithmetic is exact.
MaxSensors == 2
SetupIds == << "RPM", "ECT", "TPS", "MAP" >>
RefreshChoices == { 1, 2, 99, 100 }
MinChoices == { 0, 10, 15 }
MaxChoices == { 20, 8000 }
StepChoices == { 1, 2, 4 }

Shapes == [ refresh : RefreshChoices, minValue : MinChoices, maxValue : MaxChoices ]

Registries ==
  { [ n \in 1..Len(c) |->
        [ sensorId |-> SetupIds[n], refresh |-> c[n].refresh,
          minValue |-> c[n].minValue, maxValue |-> c[n].maxValue ] ] :
      c \in UNION { [ 1..k -> Shapes ] : k \in 1..MaxSensors } }

SetupSettings ==
  [ USE_CONSOLE : { FALSE }, USE_MATRIX : { FALSE }, USE_BUTTONS : { FALSE },
    USE_GRAPHICS : { FALSE }, SERIALIO_DEMO : { TRUE },
    DEMO_STEPS : StepChoices, SENSORS : Registries ]

InitSetup ==
  /\ settings \in SetupSettings
  /\ mpc = "none"
  /\ spc = "init"
  /\ InitRest

\* lines 70-72: demo_sensor = setupDemoSensors()
S_SetupDemo ==
  /\ spc = "init"
  /\ SERIALIO_DEMO' = settings.SERIALIO_DEMO
  /\ demo_sensor' = IF settings.SERIALIO_DEMO
                    THEN setupDemoSensorsOf(settings.SENSORS, settings.DEMO_STEPS)
                    ELSE demo_sensor
  /\ spc' = "pacing"
  /\ UNCHANGED << settings, now, queueVars, mainVars, ecuVars, connected,
                  sample_counter_id, sensor_timer, counter, sample_time,
                  sample_start, si, mainHist, serialHist >>

\* lines 83-88
S_FindPacing ==
  /\ spc = "pacing"
  /\ sample_counter_id' = FindPacing(settings.SENSORS, 1, 99, "")
  /\ spc' = "paced"
  /\ UNCHANGED << settings, now, queueVars, mainVars, ecuVars, SERIALIO_DEMO,
                  demo_sensor, connected, sensor_timer, counter, sample_time,
                  sample_start, si, mainHist, serialHist >>

NextSetup == S_SetupDemo \/ S_FindPacing

SpecSetup == InitSetup /\ [][NextSetup]_vars

\* ---- Stopping the program. Neither file installs a signal handler or
\* catches an exception, and both loops are `while True` with no break: a stop
\* signal (SIGINT raising KeyboardInterrupt, or SIGTERM) ends the process
\* where it stands.
MainLoopPcs == { "rxcheck", "rxget", "w195", "w196", "always", "actcheck",
                 "actget", "publish" }
SerialLoopPcs == { "top", "ctrl", "ctrlget", "tx", "sensors" }

\* PyCosworth.py lines 173-214 interrupted
M_Interrupt ==
  /\ mpc \in MainLoopPcs
  /\ mpc' = "interrupted"
  /\ UNCHANGED << settings, now, queueVars, workers, messageQueues, names, d,
                  gpioMessage, qi, ecuVars, serialVars, mainHist, serialHist >>

\* SerialIO.py lines 108-221 interrupted
S_Interrupt ==
  /\ spc \in SerialLoopPcs
  /\ spc' = "interrupted"
  /\ UNCHANGED << settings, now, queueVars, mainVars, ecuVars, SERIALIO_DEMO,
                  demo_sensor, connected, sample_counter_id, sensor_timer, counter,
                  sample_time, sample_start, si, mainHist, serialHist >>

\* PyCosworth.py lines 216-227: close the queues, join the workers. The lines
\* follow the `while True` of line 173, which no statement leaves, so no step
\* of the loop leads to "loopexit" and this is a disjunct of no next-state
\* relation.
M_Shutdown ==
  /\ mpc = "loopexit"
  /\ mpc' = "joined"
  /\ UNCHANGED << settings, now, queueVars, workers, messageQueues, names, d,
                  gpioMessage, qi, ecuVars, serialVars, mainHist, serialHist >>

MainLoop == M_RxCheck \/ M_ActCheck \/ M_ActGet \/ M_Put
SerialLoop == S_Init \/ S_LoopTop \/ S_CtrlCheck \/ S_CtrlGet \/ S_Transmit \/ S_Sensor

NextStop ==
  \/ Startup
  \/ M_RxCheck \/ M_ActCheck \/ M_ActGet \/ M_Put
  \/ ButtonPress
  \/ S_Init \/ S_LoopTop \/ S_CtrlCheck \/ S_CtrlGet \/ S_Transmit \/ S_Sensor
  \/ M_Interrupt \/ S_Interrupt

\* Each process is scheduled by the operating system and sleeps a bounded time
\* per tick (lines 214 and 221): a process that can take a step takes one.
SpecStop ==
  /\ Init
  /\ [][NextStop]_vars
  /\ WF_vars(Startup \/ MainLoop)
  /\ WF_vars(SerialLoop)

\* ================================================================ claims
Range(q) == { q[n] : n \in 1..Len(q) }
Count(q, x) == Cardinality({ n \in 1..Len(q) : q[n] = x })
Pos(q, x) == CHOOSE n \in 1..Len(q) : q[n] = x
Seqs(q) == [ n \in 1..Len(q) |-> q[n].seq ]
Min(a, b) == IF a < b THEN a ELSE b

\* C1: in every tick of the SerialIO loop the sample counter grows by exactly 1
\* if the pacing sensor is found due in that tick and by 0 otherwise, whatever
\* other sensors are due in the tick and whatever the mode.
C1_CounterPacedOnce ==
  counter = tickCounter + (IF sample_counter_id \in dueInTick THEN 1 ELSE 0)

\* a finished tick in which the pacing sensor and another sensor were both due
C1_Witness ==
  /\ spc = "top"
  /\ sample_counter_id \in dueInTick
  /\ Cardinality(dueInTick) >= 2
  /\ counter = tickCounter + 1

\* the coordinator is between taking a DATA event for the sensor and line 196
MidUpdate(id) == mpc \in { "w195", "w196" } /\ SensorId(d) = id

\* C2: outside the two writes of an update of sensor s, current[s] is the value
\* of the latest DATA event taken for s and previous[s] is the value current[s]
\* held before it: the value of the DATA event before that one, or the null
\* value when there was none. Events for other sensors leave the pair alone.
C2_PreviousIsPriorCurrent ==
  \A id \in SensorIds :
    LET n == Len(applied[id])
    IN  (n >= 1 /\ ~MidUpdate(id)) =>
          /\ data[id] = applied[id][n]
          /\ data_previous[id] = IF n >= 2 THEN applied[id][n - 1] ELSE NoValue

\* values v1, v2, v3 with v2 # v3 were applied to one sensor, and the pair of
\* the other sensor is still null
C2_Witness ==
  \E id \in SensorIds :
    /\ Len(applied[id]) = 3
    /\ applied[id][2] # applied[id][3]
    /\ applied[id][1] # applied[id][2]
    /\ mpc = "always"
    /\ data[id] = applied[id][3]
    /\ data_previous[id] = applied[id][2]

\* C3: every (current, previous) pair of a sensor that a reader can see - the
\* pair in any reachable state - is the pair as it stood before the update in
\* progress began or as it stands once that update is complete.
C3_ReadersSeeWholePairs ==
  \A id \in SensorIds :
    \/ << data[id], data_previous[id] >> = committed[id]
    \/ /\ MidUpdate(id)
       /\ << data[id], data_previous[id] >> = << Value(d), committed[id][1] >>

\* the control inbox a started worker listens on, and everything put on an
\* inbox so far (what SerialIO has taken from its inbox included)
InboxOf(proc) ==
  CASE proc = "serial_p" -> "serialControlQueue"
    [] proc = "console_p" -> "consoleControlQueue"
    [] proc = "matrix_p" -> "matrixControlQueue"
    [] proc = "graphics_p" -> "graphicsControlQueue"

StartedInboxes == { InboxOf(w) : w \in Range(workers) \ { "gpio_button_p" } }

PutLog(q) ==
  IF q = "serialControlQueue" THEN received \o Seqs(controlQueue[q])
  ELSE Seqs(controlQueue[q])

\* C4: for every combination of enabled workers, once start-up is over and no
\* publish loop is in progress, the inbox of every started worker that has one
\* is in the coordinator's broadcast list and holds every drained action
\* exactly once (counting what SerialIO has already taken from its inbox).
C4_EveryStartedInboxReceives ==
  mpc \notin { "start", "publish" } =>
    \A q \in StartedInboxes :
      /\ q \in Range(messageQueues)
      /\ \A n \in 1..Len(published) : Count(PutLog(q), published[n]) = 1

\* C5: if the coordinator republished m1 before m2, every control inbox that
\* holds both holds m1 ahead of m2, and SerialIO, when it takes both, takes m1
\* first: what was put on an inbox, taken or not, is in publish order.
C5_InPublishOrder ==
  \A q \in Inboxes :
    \A i, j \in 1..Len(PutLog(q)) :
      i < j => /\ PutLog(q)[i] \in Range(published)
               /\ PutLog(q)[j] \in Range(published)
               /\ Pos(published, PutLog(q)[i]) < Pos(published, PutLog(q)[j])

\* SerialIO took two messages and a second inbox holds the same two
C5_Witness ==
  /\ Len(received) >= 2
  /\ \E q \in Inboxes \ { "serialControlQueue" } : Len(controlQueue[q]) >= 2

\* the SerialIO step of lines 119-140
TakesControl == spc = "ctrlget" /\ spc' = "tx"

\* C6: a step in which SerialIO takes a control message that is not its own
\* consumes the message and leaves demo mode, the demo cursors and data, the
\* sensor timers and the sample counter unchanged; demo mode and the demo
\* cursors change in a control step only when the message is its own.
C6_ForeignMessageIgnored ==
  [][ TakesControl =>
        LET cdata == Head(controlQueue["serialControlQueue"])
        IN  /\ controlQueue'["serialControlQueue"] = Tail(controlQueue["serialControlQueue"])
            /\ ( ~isMine(cdata, BUTTON_DEST_SERIALIO) =>
                   UNCHANGED << SERIALIO_DEMO, demo_sensor, sensor_timer, counter >> )
            /\ UNCHANGED << sensor_timer, counter >> ]_vars

\* a pressed SHORT message for another worker was just taken in demo mode,
\* with a cursor off 0
C6_Witness ==
  /\ spc = "tx"
  /\ lastHandled.destination = BUTTON_DEST_OTHER
  /\ lastHandled.button
  /\ lastHandled.duration = BUTTON_SHORT
  /\ SERIALIO_DEMO
  /\ \E id \in SensorIds : demo_sensor[id].demo_data_idx # 0

\* C7: when demo mode was left and entered again by control messages, the
\* first value emitted for a sensor after re-entering is the index-0 value of
\* its demo sequence, wherever its cursor stood when demo mode was left.
C7_RestartsAtIndexZero ==
  \A id \in SensorIds :
    (reenabled /\ emitLog[id] # << >>) =>
       emitLog[id][1] = demo_sensor[id].demo_data[1]

\* a sensor whose cursor stood off 0 when demo mode was left has emitted again
C7_Witness ==
  /\ reenabled
  /\ SERIALIO_DEMO
  /\ \E id \in SensorIds : offCursor[id] /\ emitLog[id] # << >>

\* C8: a generated demo sequence has 2 * DEMO_STEPS values, the cursor stays in
\* 0 .. 2 * DEMO_STEPS - 1 and equals the number of emissions since demo mode
\* was entered modulo 2 * DEMO_STEPS (so it is back at 0 after 2 * DEMO_STEPS
\* emissions), and the k-th emitted value is the value at index
\* (k - 1) mod 2 * DEMO_STEPS.
C8_CursorCyclic ==
  \A id \in SensorIds :
    LET seq == demo_sensor[id].demo_data
        idx == demo_sensor[id].demo_data_idx
        period == 2 * DEMO_STEPS
    IN  /\ (SERIALIO_DEMO \/ seq # << >>) => Len(seq) = period
        /\ idx \in 0..(period - 1)
        /\ idx = Len(emitLog[id]) % period
        /\ \A k \in 1..Len(emitLog[id]) : emitLog[id][k] = seq[((k - 1) % period) + 1]

\* a sensor has emitted a whole period and its cursor is back at 0
C8_Witness ==
  \E id \in SensorIds :
    /\ Len(emitLog[id]) = 2 * DEMO_STEPS
    /\ demo_sensor[id].demo_data_idx = 0

RPM4 == << 0, 2000, 4000, 6000 >>

\* C9: for k = 1 .. DEMO_STEPS the k-th value emitted for a sensor after demo
\* mode is entered is minValue + (k - 1) * (maxValue / DEMO_STEPS) (as numerators
\* over DEMO_STEPS: minValue * DEMO_STEPS + (k - 1) * maxValue); for RPM with
\* min 0, max 8000 and 4 steps the first four values are 0, 2000, 4000, 6000.
C9_AscentValues ==
  /\ \A n \in 1..Len(SENSORS) :
       LET sensor == SENSORS[n]
           log == emitLog[sensor.sensorId]
       IN  \A k \in 1..Min(Len(log), DEMO_STEPS) :
             log[k] = sensor.minValue * DEMO_STEPS + (k - 1) * sensor.maxValue
  /\ \A k \in 1..4 :
       DemoData([ sensorId |-> "RPM", refresh |-> 1, minValue |-> 0, maxValue |-> 8000 ],
                4)[k] = RPM4[k] * 4

\* a sensor with a non-zero minimum has emitted its whole ascent
C9_Witness ==
  \E n \in 1..Len(SENSORS) :
    /\ SENSORS[n].minValue # 0
    /\ Len(emitLog[SENSORS[n].sensorId]) >= DEMO_STEPS

\* the coordinator steps that take (line 182) and handle (lines 197-202) an
\* event of unknown kind
TakesUnknown ==
  mpc = "rxget" /\ mpc' # mpc /\ Kind(d') \notin { TYPE_DATA, TYPE_ERROR }
HandlesUnknown ==
  mpc = "always" /\ mpc' # mpc /\ Kind(d) \notin { TYPE_DATA, TYPE_ERROR }

\* C10 (as claimed): taking and handling an event whose kind is neither DATA
\* nor ERROR leaves the value maps, the sample counter, the cycle latency and
\* the error store unchanged and does not end the coordinator.
C10_UnknownKindNoEffect ==
  [][ (TakesUnknown \/ HandlesUnknown) =>
        /\ UNCHANGED << data, data_previous, ecuCounter, ecuSampleTime, ecuErrors >>
        /\ mpc' # "crashed" ]_vars

\* C10 (amended): such an event leaves the value maps and the error store
\* unchanged and does not end the coordinator, but lines 200-202 still set the
\* sample counter and the cycle latency to the event's fields.
C10_UnknownKindKeepsValues ==
  [][ /\ TakesUnknown => ( UNCHANGED ecuVars /\ mpc' = "always" )
      /\ HandlesUnknown =>
           /\ UNCHANGED << data, data_previous, ecuErrors >>
           /\ ecuCounter' = SampleCount(d)
           /\ ecuSampleTime' = CycleTime(d)
           /\ mpc' = "actcheck" ]_vars

\* an unknown-kind event was handled after a value had been stored: the value
\* is still there and the counter is the event's
C10_Witness ==
  /\ mpc = "actcheck"
  /\ Len(d) = 5
  /\ Kind(d) = TYPE_OTHER
  /\ \E id \in SensorIds : data[id] # NoValue
  /\ ecuCounter = SampleCount(d)
  /\ ecuCounter >= 2

\* the coordinator steps that take (line 182) and handle (lines 190-192 and
\* 200-202) an ERROR event, and the state right after the second
TakesError ==
  mpc = "rxget" /\ mpc' # mpc /\ Kind(d') = TYPE_ERROR
HandlesError ==
  mpc = "always" /\ mpc' # mpc /\ Kind(d) = TYPE_ERROR
ErrorHandled ==
  mpc = "actcheck" /\ Len(d) = 5 /\ Kind(d) = TYPE_ERROR

\* C11: once the coordinator has consumed an ERROR event, the error store
\* holds the event's error code and has at most MAX_ERRORS entries; taking and
\* handling the event leaves the current and previous value maps unchanged and
\* does not end the coordinator.
C11_ErrorRecorded ==
  /\ [](ErrorHandled => /\ Value(d) \in Range(ecuErrors)
                        /\ Len(ecuErrors) <= MAX_ERRORS)
  /\ [][ (TakesError \/ HandlesError) =>
           /\ UNCHANGED << data, data_previous >>
           /\ mpc' # "crashed" ]_vars

\* the shutdown state: the coordinator has closed the queues and joined the
\* workers, and SerialIO has left its loop
ShutDown == mpc = "joined" /\ spc \notin SerialLoopPcs

\* C12: once a stop signal has reached the coordinator, the coordinator and
\* SerialIO eventually leave their loops and the shutdown state (queues
\* closed, workers joined) is reached.
C12_StopReachesShutdown ==
  (mpc = "interrupted") ~> ShutDown

\* the SerialIO step that examines sensor SENSORS[si] (lines 175-213) and
\* finds it due
ExaminesDue ==
  /\ spc = "sensors"
  /\ si' # si
  /\ Due(SENSORS[si], sensor_timer, now)

\* C13: a step of the sensor loop that finds a sensor due leaves its timer at
\* the current time, in demo, live connected and live disconnected mode alike,
\* so the sensor is not due again before a full refresh interval has elapsed.
C13_DueTimerReset ==
  [][ ExaminesDue =>
        /\ sensor_timer'[SENSORS[si].sensorId] = now
        /\ ~Due(SENSORS[si], sensor_timer', now) ]_vars

\* the registry set-up has run on, its smallest refresh interval and the first
\* sensor in registry order that has it
Registry == settings.SENSORS
MinRefresh ==
  CHOOSE r \in { Registry[n].refresh : n \in 1..Len(Registry) } :
    \A n \in 1..Len(Registry) : r <= Registry[n].refresh
FirstWithMinRefresh ==
  Registry[CHOOSE n \in 1..Len(Registry) :
             /\ Registry[n].refresh = MinRefresh
             /\ \A m \in 1..(n - 1) : Registry[m].refresh # MinRefresh].sensorId

\* C14: for every non-empty registry with positive refresh intervals, the
\* pacing sensor selected at set-up is the first sensor in registry order
\* whose refresh interval is the minimum over the registry; in particular one
\* is selected.
C14_PacingIsFirstMinimum ==
  spc = "paced" =>
    /\ sample_counter_id = FirstWithMinRefresh
    /\ sample_counter_id \in { Registry[n].sensorId : n \in 1..Len(Registry) }

\* the demo sequence set-up generated for the n-th sensor of the registry, its
\* values being numerators over the step count
DemoSeq(n) == demo_sensor[Registry[n].sensorId].demo_data
Scaled(v) == v * settings.DEMO_STEPS
DemoGenerated == spc \in { "pacing", "paced" }

\* C15: the generated demo sequence of every sensor has minValue as its
\* smallest value and maxValue as its largest, and no value outside
\* [minValue, maxValue].
C15_RampSpansRange ==
  DemoGenerated =>
    \A n \in 1..Len(Registry) :
      /\ \E k \in 1..Len(DemoSeq(n)) : DemoSeq(n)[k] = Scaled(Registry[n].minValue)
      /\ \E k \in 1..Len(DemoSeq(n)) : DemoSeq(n)[k] = Scaled(Registry[n].maxValue)
      /\ \A k \in 1..Len(DemoSeq(n)) :
           /\ Scaled(Registry[n].minValue) <= DemoSeq(n)[k]
           /\ DemoSeq(n)[k] <= Scaled(Registry[n].maxValue)

\* C16 (as claimed): the last value of a sensor's demo sequence equals
\* minValue only when minValue = 0; with minValue # 0 the descent ends at a
\* value different from minValue.
C16_FloorOnlyForZeroMin ==
  DemoGenerated =>
    \A n \in 1..Len(Registry) :
      Registry[n].minValue # 0 =>
        DemoSeq(n)[Len(DemoSeq(n))] # Scaled(Registry[n].minValue)

\* C16 (amended): the last value of a sensor's demo sequence equals minValue
\* whatever minValue is: the descent subtracts the step the ascent added, as
\* many times.
C16_DescentEndsAtMin ==
  DemoGenerated =>
    \A n \in 1..Len(Registry) :
      /\ Len(DemoSeq(n)) = 2 * settings.DEMO_STEPS
      /\ DemoSeq(n)[Len(DemoSeq(n))] = Scaled(Registry[n].minValue)

\* a sequence was generated for a sensor with a non-zero minimum, in more
\* than one step
C16_Witness ==
  /\ DemoGenerated
  /\ settings.DEMO_STEPS > 1
  /\ \E n \in 1..Len(Registry) :
       /\ Registry[n].minValue # 0
       /\ DemoSeq(n)[Len(DemoSeq(n))] = Scaled(Registry[n].minValue)
       /\ DemoSeq(n)[1] # DemoSeq(n)[2]

\* a SerialIO step that puts a sample event on serialReceiveQueue, and the
\* event it puts
PutsSample ==
  /\ spc = "sensors"
  /\ Len(serialReceiveQueue') = Len(serialReceiveQueue) + 1
PutSample == serialReceiveQueue'[Len(serialReceiveQueue')]

\* C17: every sample event put on serialReceiveQueue carries as its cycle
\* latency the latency measured when the pacing sensor last fired, at or before
\* the event was produced, also when the event is for another sensor or is
\* produced in a tick in which the pacing sensor did not fire.
C17_LatencyOfLastPacing ==
  [][ (PutsSample /\ pacedLatency' # NoValue) =>
         CycleTime(PutSample) = pacedLatency' ]_vars

\* the values of the events still on serialReceiveQueue for a sensor, the
\* number of entries of a per-sensor log over the first n sensors, and the
\* most events SerialIO can put within the bounds
RECURSIVE QueuedValues(_, _)
QueuedValues(q, id) ==
  IF q = << >> THEN << >>
  ELSE IF SensorId(Head(q)) = id THEN << Value(Head(q)) >> \o QueuedValues(Tail(q), id)
  ELSE QueuedValues(Tail(q), id)
RECURSIVE TotalLen(_, _)
TotalLen(log, n) ==
  IF n = 0 THEN 0 ELSE Len(log[SENSORS[n].sensorId]) + TotalLen(log, n - 1)
Emitted == TotalLen(emitLog, Len(SENSORS))
Taken == TotalLen(applied, Len(SENSORS))
MaxEmitted == MaxCounter * Len(SENSORS)

\* the coordinator keeps ticking: it is at the top of its loop again and again
KeepsTicking == []<>(mpc = "rxcheck")

\* C18: the events SerialIO put for a sensor are, in order, the ones the
\* coordinator has taken followed by the ones still queued (none lost, none
\* taken twice); the queue changes only by a put at its tail or by the
\* coordinator taking its head, so events are taken in the order they were
\* put, also when several are queued; the stored sample counter never
\* decreases; and while the coordinator keeps ticking, the k-th event put is
\* eventually taken, for every k.
C18_TakenOnceInOrder ==
  /\ [](\A id \in SensorIds :
          emitLog[id] = applied[id] \o QueuedValues(serialReceiveQueue, id))
  /\ [][ serialReceiveQueue' # serialReceiveQueue =>
           \/ /\ serialReceiveQueue # << >>
              /\ serialReceiveQueue' = Tail(serialReceiveQueue)
              /\ d' = Head(serialReceiveQueue)
           \/ /\ Len(serialReceiveQueue') = Len(serialReceiveQueue) + 1
              /\ SubSeq(serialReceiveQueue', 1, Len(serialReceiveQueue))
                   = serialReceiveQueue ]_vars
  /\ [][ ecuCounter' >= ecuCounter ]_vars
  /\ ( KeepsTicking =>
         \A k \in 1..MaxEmitted : (Emitted >= k) ~> (Taken >= k) )

\* two events are queued at once, both put in one SerialIO tick, after the
\* coordinator has taken two earlier ones, one per tick
C18_Witness ==
  /\ Taken >= 2
  /\ Len(serialReceiveQueue) = 2
  /\ Cardinality(dueInTick) = 2
  /\ ecuCounter >= 1

\* a control message addressed to SerialIO, pressed, of duration SHORT
OwnShortPress(cdata) ==
  /\ isMine(cdata, BUTTON_DEST_SERIALIO)
  /\ cdata.button
  /\ cdata.duration = BUTTON_SHORT

\* C19: after set-up, demo mode changes only in a step that takes an own,
\* pressed, SHORT control message; such a step takes one message and flips the
\* mode once, and on entering demo mode every demo cursor is 0; a step that
\* takes any other message (LONG, NONE, not pressed, or not its own) leaves
\* demo mode and the demo cursors unchanged. The inbox shrinks only in the
\* take step of lines 118-119, which is reached only from the check of line
\* 118, itself reached only from the top of the loop: at most one message is
\* consumed per tick.
C19_DemoTogglesOnOwnShortPress ==
  [][ LET inbox == controlQueue["serialControlQueue"]
          cdata == Head(inbox)
      IN  /\ (SERIALIO_DEMO' # SERIALIO_DEMO /\ spc # "init") =>
                (TakesControl /\ OwnShortPress(cdata))
          /\ (TakesControl /\ OwnShortPress(cdata)) =>
                /\ SERIALIO_DEMO' = ~SERIALIO_DEMO
                /\ controlQueue'["serialControlQueue"] = Tail(inbox)
                /\ SERIALIO_DEMO' =>
                     \A id \in SensorIds : demo_sensor'[id].demo_data_idx = 0
          /\ (TakesControl /\ ~OwnShortPress(cdata)) =>
                UNCHANGED << SERIALIO_DEMO, demo_sensor >>
          /\ Len(controlQueue'["serialControlQueue"]) < Len(inbox) => TakesControl
          /\ (spc' = "ctrlget" /\ spc # "ctrlget") => spc = "ctrl"
          /\ (spc' = "ctrl" /\ spc # "ctrl") => spc = "top" ]_vars

\* an own pressed LONG message was just taken in demo mode with a cursor off
\* 0 and the mode was kept, while the next message already waits in the inbox
\* for the next tick
C19_Witness ==
  /\ spc = "tx"
  /\ lastHandled.destination = BUTTON_DEST_SERIALIO
  /\ lastHandled.button
  /\ lastHandled.duration = BUTTON_LONG
  /\ SERIALIO_DEMO
  /\ \E id \in SensorIds : demo_sensor[id].demo_data_idx # 0
  /\ controlQueue["serialControlQueue"] # << >>

\* no process is at a get() on an empty queue (lines 182 and 207 of the
\* coordinator, line 119 of SerialIO; the transmit get of line 152 is taken
\* with its check in one step)
NoGetOnEmpty ==
  /\ mpc = "rxget" => serialReceiveQueue # << >>
  /\ mpc = "actget" => gpioActionQueue # << >>
  /\ spc = "ctrlget" => controlQueue["serialControlQueue"] # << >>

\* the coordinator ended inside a tick of its loop (start-up itself succeeds
\* unless USE_CONSOLE is set)
TickAborted == mpc = "crashed" /\ ~settings.USE_CONSOLE

\* C20: no queue operation of the coordinator or of SerialIO blocks for ever:
\* whenever a process is at a get(), the queue it reads is non-empty; and every
\* tick of both loops completes: no process ends or stops inside a tick.
C20_NoGetBlocksTicksComplete ==
  /\ NoGetOnEmpty
  /\ ~TickAborted
  /\ spc # "crashed"

====
